---- MODULE Spec2Model ----
(***************************************************************************)
(* Gold Bottom Ent. LLC portal: the Entity Repository (js/data-store.js),  *)
(* the Key-Value Store Adapter (js/utils.js), and the navigation pipeline  *)
(* Router (js/router.js) -> Auth (js/auth.js) -> PageLoader                *)
(* (js/scroll-animations.js).                                              *)
(*                                                                         *)
(* The specifications of this module:                                      *)
(*   SpecStore    the repository's add / update / delete / activity log    *)
(*   SpecQuota    the same calls over a store whose writes can fail        *)
(*   SpecKV       Utils.storage.set / get over the text of localStorage    *)
(*   SpecSeed     DataStore.init and Auth.init at start-up, in any order   *)
(*   Spec         Router.navigateTo, Auth and PageLoader                   *)
(*   SpecVerify   Spec with the verification request failing               *)
(*   SpecSession  Spec with reloads of the page                            *)
(*   SpecLogout   Spec with Auth.logout                                    *)
(*   SpecProvider SpecLogout with Auth.loginWithProvider                   *)
(* Each leaves the variables it does not use at their initial values.      *)
(***************************************************************************)
EXTENDS Integers, Sequences, FiniteSets, TLC

(***************************************************************************)
(* Bounds of the model.                                                    *)
(***************************************************************************)
MaxTime      == 2   \* the clock reads 1..MaxTime
MaxRand      == 2   \* Math.random() suffixes 0..MaxRand-1
MaxMutations == 2   \* repository calls in one behaviour
MaxCalls      == 2  \* Router.navigateTo calls of one page load
MaxAuthEvents == 2  \* auth-state events Firebase delivers unasked in one behaviour
MaxEvents     == 3  \* calls and auth-state events together in one behaviour

(***************************************************************************)
(* Program constants.                                                      *)
(***************************************************************************)
MaxActivities == 50   \* data-store.js:887
SeedTime      == 0    \* the fixtures' timestamps all precede the first run
PriorUpdates  == 49   \* updates already logged in the long-running initial state

VARIABLES
  db,        \* localStorage as the repository sees it: key -> parsed array
  now,       \* Date.now() / new Date()
  nMut,      \* repository calls made so far
  last,      \* the last repository call: its arguments, result and pre-state
  hist,      \* every Activity Record ever written, newest first
  localStorage,  \* window.localStorage: key -> text, or no entry
  lastKV,        \* the last Utils.storage call and the one before it
  env,       \* where the page runs: hostname class, SiteConfig.features.enableAuth
  router,    \* Router's fields and window.location.hash
  auth,      \* Auth's fields
  loader,    \* PageLoader's cache and the two content containers
  calls,     \* the Router.navigateTo calls made, each with the point it has reached
  fb,        \* Firebase Auth and the Firestore 'users' collection
  modal,     \* the dialog Modal shows
  tiers,     \* the tiers (isLocal) in which seedIfEmpty is known to have run
  loads,     \* the page loads so far, the present one included
  logoutDue  \* the .then of Auth.logout's PIN branch has yet to run

storeVars == <<db, now, nMut, last, hist>>

kvVars == <<localStorage, lastKV>>

navVars == <<env, router, auth, loader, calls, fb, modal>>

vars == <<db, now, nMut, last, hist, localStorage, lastKV,
          env, router, auth, loader, calls, fb, modal, tiers, loads, logoutDue>>

\* what the repository's steps leave alone
notStoreVars ==
  <<localStorage, lastKV, env, router, auth, loader, calls, fb, modal, tiers, loads, logoutDue>>

\* what the adapter's steps leave alone
notKVVars ==
  <<db, now, nMut, last, hist, env, router, auth, loader, calls, fb, modal, tiers, loads, logoutDue>>

\* what the page's steps leave alone
notPageVars == <<db, now, nMut, last, hist, lastKV, tiers, loads>>

notNavVars == <<db, now, nMut, last, hist, lastKV, tiers, loads, logoutDue>>

(***************************************************************************)
(* Small helpers.                                                          *)
(***************************************************************************)
Range(s) == {s[i] : i \in DOMAIN s}

Take(s, n) == IF Len(s) <= n THEN s ELSE SubSeq(s, 1, n)

NoRecord == <<>>   \* stands for JS null / "no such record"

(***************************************************************************)
(* DataStore.KEYS (the two collections the model exercises, and the log).  *)
(***************************************************************************)
ROSTER    == "gbe-roster"
CONTRACTS == "gbe-contracts"
ACTIVITY  == "gbe-activity"

CollectionKeys == {ROSTER, CONTRACTS}

(***************************************************************************)
(* Utils.generateId: 'gbe_' + Date.now() + '_' + 4 hex digits.             *)
(***************************************************************************)
Hex4(r) == IF r < 10 THEN "000" \o ToString(r) ELSE "00" \o ToString(r)

generateId(t, r) == "gbe_" \o ToString(t) \o "_" \o Hex4(r)

(***************************************************************************)
(* Records are functions from field names to values; a field that is not   *)
(* in the domain is an absent (undefined) property.                        *)
(***************************************************************************)
Has(rec, f) == f \in DOMAIN rec

\* item.id || ...  : an absent or empty id is falsy
Truthy(rec, f) == Has(rec, f) /\ rec[f] # ""

IdOf(rec) == IF Has(rec, "id") THEN rec.id ELSE ""

Ids(items) == {IdOf(items[i]) : i \in DOMAIN items}

(***************************************************************************)
(* Generic CRUD helpers.                                                   *)
(***************************************************************************)
\* Utils.storage.get(key, []) on the parsed store
_getAll(d, key) == IF key \in DOMAIN d THEN d[key] ELSE <<>>

\* Utils.storage.set(key, data)
_save(d, key, data) == (key :> data) @@ d

\* items.findIndex(item => item.id === id), 0 for -1
FindIndex(items, id) ==
  IF \E i \in DOMAIN items : IdOf(items[i]) = id
  THEN CHOOSE i \in DOMAIN items :
         /\ IdOf(items[i]) = id
         /\ \A j \in DOMAIN items : IdOf(items[j]) = id => i <= j
  ELSE 0

_getById(d, key, id) ==
  LET items == _getAll(d, key)
      i     == FindIndex(items, id)
  IN  IF i = 0 THEN NoRecord ELSE items[i]

entityLabel(key) ==
  IF key = ROSTER THEN "talent"
  ELSE IF key = CONTRACTS THEN "contract"
  ELSE "item"

entityName(entity) == IF Truthy(entity, "name") THEN entity.name ELSE "Unknown"

ActivityRecord(action, key, entity, t, q) ==
  [id         |-> generateId(t, q),
   action     |-> action,
   entityType |-> entityLabel(key),
   entityName |-> entityName(entity),
   timestamp  |-> t]

\* _logActivity without the truncation to the last 50 activities
_logActivity_untruncated(d, action, key, entity, t, q) ==
  _save(d, ACTIVITY, <<ActivityRecord(action, key, entity, t, q)>> \o _getAll(d, ACTIVITY))

\* activities.unshift(rec); if (activities.length > 50) activities.length = 50
_logActivity(d, action, key, entity, t, q) ==
  LET activities == _getAll(d, ACTIVITY)
      grown      == <<ActivityRecord(action, key, entity, t, q)>> \o activities
  IN  _save(d, ACTIVITY, Take(grown, MaxActivities))

getActivity(d, limit) == Take(_getAll(d, ACTIVITY), limit)

\* the record _add stores: id, createdAt filled when falsy, updatedAt always
Stamped(item, t, r) ==
  ("updatedAt" :> t)
  @@ (IF Truthy(item, "id") THEN <<>> ELSE ("id" :> generateId(t, r)))
  @@ (IF Has(item, "createdAt") THEN <<>> ELSE ("createdAt" :> t))
  @@ item

_add(d, key, item, t, r, q) ==
  LET stored == Stamped(item, t, r)
      items  == Append(_getAll(d, key), stored)
  IN  _logActivity(_save(d, key, items), "create", key, stored, t, q)

\* the spread with updatedAt first, so that a patch can override it
Merged_patchLast(old, updates, t) == updates @@ ("updatedAt" :> t) @@ old

\* { ...items[index], ...updates, updatedAt: now }
Merged(old, updates, t) == ("updatedAt" :> t) @@ updates @@ old

_update(d, key, id, updates, t, q) ==
  LET items == _getAll(d, key)
      index == FindIndex(items, id)
  IN  IF index = 0 THEN d
      ELSE LET merged == Merged(items[index], updates, t)
           IN  _logActivity(_save(d, key, [items EXCEPT ![index] = merged]),
                            "update", key, merged, t, q)

\* items.filter(item => item.id !== id)
RECURSIVE Without(_, _)
Without(items, id) ==
  IF items = <<>> THEN <<>>
  ELSE IF IdOf(Head(items)) = id THEN Without(Tail(items), id)
       ELSE <<Head(items)>> \o Without(Tail(items), id)

_delete(d, key, id, t, q) ==
  LET items    == _getAll(d, key)
      found    == FindIndex(items, id)
      filtered == Without(items, id)
      saved    == _save(d, key, filtered)
  IN  IF found # 0 THEN _logActivity(saved, "delete", key, items[found], t, q)
      ELSE saved

(***************************************************************************)
(* Seed fixtures (seedRoster, seedContracts, seedActivity), reduced to the *)
(* fields the repository itself reads or writes.                           *)
(***************************************************************************)
Seed(id, name) ==
  [id |-> id, name |-> name, createdAt |-> SeedTime, updatedAt |-> SeedTime]

seedRoster ==
  << Seed("talent-001", "L.A. Young"), Seed("talent-002", "[Artist Name]"),
     Seed("talent-003", "[Creative Name]"), Seed("talent-004", "[Developer Name]") >>

seedContracts ==
  << Seed("contract-001", "Management"), Seed("contract-002", "Booking"),
     Seed("contract-003", "Development") >>

SeedAct(id, type, name) ==
  [id |-> id, action |-> "create", entityType |-> type, entityName |-> name,
   timestamp |-> SeedTime]

seedActivity ==
  << SeedAct("act-001", "talent", "L.A. Young"),
     SeedAct("act-002", "contract", "Management"),
     SeedAct("act-003", "IP entry", "[Song Title]"),
     SeedAct("act-004", "revenue", "Performance"),
     SeedAct("act-005", "booking", "[Sample] Venue Show") >>

seedIfEmpty ==
  (ROSTER :> seedRoster) @@ (CONTRACTS :> seedContracts) @@ (ACTIVITY :> seedActivity)

(***************************************************************************)
(* The repository's initial states: a freshly seeded store, and the same   *)
(* store after PriorUpdates earlier calls updateTalent('talent-002', {})   *)
(* (which leave the roster as seeded and fill the activity log).           *)
(***************************************************************************)
PriorEntry(k) ==
  [id |-> generateId(SeedTime, k), action |-> "update", entityType |-> "talent",
   entityName |-> "[Artist Name]", timestamp |-> SeedTime]

\* the n earlier mutations, newest first
PriorLog(n) == [i \in 1..n |-> PriorEntry(n - i)]

NoCall ==
  [op |-> "none", key |-> ROSTER, id |-> "", arg |-> <<>>, ret |-> <<>>,
   hit |-> FALSE, at |-> 0, pre |-> seedIfEmpty]

\* the repository when the page has loaded: freshly seeded, or after a long run
StartStore ==
  /\ now = 1
  /\ nMut = 0
  /\ last = NoCall
  /\ tiers = {}
  /\ \E n \in {0, PriorUpdates} :
       /\ hist = PriorLog(n)
       /\ db = _save(seedIfEmpty, ACTIVITY,
                     Take(PriorLog(n) \o seedActivity, MaxActivities))

\* the repository at rest, while another part of the program runs
IdleStore ==
  /\ now = 1
  /\ nMut = 0
  /\ last = NoCall
  /\ hist = <<>>
  /\ tiers = {}
  /\ db = seedIfEmpty

(***************************************************************************)
(* Inputs of the repository calls.                                         *)
(***************************************************************************)
Rand == 0 .. (MaxRand - 1)

\* the suffix drawn for the Activity Record's own id (no claim reads that id)
LogRand == {0}

AddItems ==
  { [name |-> "n1"],                        \* no id: one is generated
    [id |-> "talent-001", name |-> "n2"],   \* caller-supplied id (a seed's, in the roster)
    [id |-> "", createdAt |-> SeedTime] }   \* falsy id, createdAt supplied

Patches ==
  { [name |-> "n2"], [id |-> "a"], [updatedAt |-> SeedTime] }

\* ids a caller asks for: a seed's, a generated one, and one that no record carries
AskedIds == {"talent-001", generateId(1, 0), "zz"}

Tick ==
  /\ now < MaxTime
  /\ now' = now + 1
  /\ UNCHANGED <<db, nMut, last, hist>>
  /\ UNCHANGED notStoreVars

Add(key, item, r, q) ==
  /\ nMut < MaxMutations
  /\ db' = _add(db, key, item, now, r, q)
  /\ last' = [op |-> "add", key |-> key, id |-> IdOf(item), arg |-> item,
              ret |-> Stamped(item, now, r), hit |-> TRUE, at |-> now, pre |-> db]
  /\ hist' = <<ActivityRecord("create", key, Stamped(item, now, r), now, q)>> \o hist
  /\ nMut' = nMut + 1
  /\ UNCHANGED now
  /\ UNCHANGED notStoreVars

IsHit(key, id) == id \in Ids(_getAll(db, key))

UpdateResult(key, id, updates) ==
  IF IsHit(key, id) THEN Merged(_getById(db, key, id), updates, now) ELSE NoRecord

Update(key, id, updates, q) ==
  /\ nMut < MaxMutations
  /\ db' = _update(db, key, id, updates, now, q)
  /\ last' = [op |-> "update", key |-> key, id |-> id, arg |-> updates,
              ret |-> UpdateResult(key, id, updates), hit |-> IsHit(key, id),
              at |-> now, pre |-> db]
  /\ hist' = IF IsHit(key, id)
             THEN <<ActivityRecord("update", key, UpdateResult(key, id, updates), now, q)>> \o hist
             ELSE hist
  /\ nMut' = nMut + 1
  /\ UNCHANGED now
  /\ UNCHANGED notStoreVars

Delete(key, id, q) ==
  /\ nMut < MaxMutations
  /\ db' = _delete(db, key, id, now, q)
  /\ last' = [op |-> "delete", key |-> key, id |-> id, arg |-> <<>>,
              ret |-> _getById(db, key, id), hit |-> IsHit(key, id),
              at |-> now, pre |-> db]
  /\ hist' = IF IsHit(key, id)
             THEN <<ActivityRecord("delete", key, _getById(db, key, id), now, q)>> \o hist
             ELSE hist
  /\ nMut' = nMut + 1
  /\ UNCHANGED now
  /\ UNCHANGED notStoreVars

NextStore ==
  \/ Tick
  \/ \E key \in CollectionKeys, item \in AddItems, r \in Rand, q \in LogRand :
       Add(key, item, r, q)
  \/ \E key \in CollectionKeys, id \in AskedIds, updates \in Patches, q \in LogRand :
       Update(key, id, updates, q)
  \/ \E key \in CollectionKeys, id \in AskedIds, q \in LogRand :
       Delete(key, id, q)

(***************************************************************************)
(* What the last repository call saw and left behind.                      *)
(***************************************************************************)
Fields == {"id", "name", "createdAt", "updatedAt"}

PreItems  == _getAll(last.pre, last.key)
PostItems == _getAll(db, last.key)
PreLog    == _getAll(last.pre, ACTIVITY)
PostLog   == _getAll(db, ACTIVITY)

\* position of the record the call addressed, in the collection before it
PreIndex == FindIndex(PreItems, last.id)

Found(d, key, id) == FindIndex(_getAll(d, key), id) # 0

SameField(a, b, f) == (Has(a, f) <=> Has(b, f)) /\ (Has(a, f) => a[f] = b[f])

RemoveAt(s, i) == SubSeq(s, 1, i - 1) \o SubSeq(s, i + 1, Len(s))

ActionOf(op) ==
  IF op = "add" THEN "create" ELSE IF op = "update" THEN "update" ELSE "delete"

(***************************************************************************)
(* C4: add(K, R) for a record R without an id returns a record whose id is *)
(* non-empty and was not the id of any record of K before the call, and    *)
(* getById(K, id) right afterwards returns a record equal to it.           *)
(***************************************************************************)
C4_AddYieldsFreshId ==
  (last.op = "add" /\ ~Truthy(last.arg, "id")) =>
     /\ last.ret.id # ""
     /\ last.ret.id \notin Ids(PreItems)
     /\ Found(db, last.key, last.ret.id)
     /\ _getById(db, last.key, last.ret.id) = last.ret

(***************************************************************************)
(* C5: in every collection no two records have the same id, after any      *)
(* sequence of add, update and delete (caller-supplied ids and patches of   *)
(* any field included).                                                    *)
(***************************************************************************)
C5_IdsUnique ==
  \A key \in CollectionKeys :
    \A i, j \in DOMAIN _getAll(db, key) :
      i # j => IdOf(_getAll(db, key)[i]) # IdOf(_getAll(db, key)[j])

(***************************************************************************)
(* C6: update(K, id, patch) on a hit: getById(K, id) afterwards is the     *)
(* pre-update record with the patch's keys overwritten and every other     *)
(* field but updatedAt unchanged, and the other records of K are           *)
(* unchanged; on a miss: not-found is returned, K is unchanged and no      *)
(* Activity Record is appended.                                            *)
(***************************************************************************)
C6_UpdateMergesPatch ==
  (last.op = "update") =>
    IF last.hit
    THEN /\ Found(db, last.key, last.id)
         /\ LET old == PreItems[PreIndex]
                got == _getById(db, last.key, last.id)
            IN  \A f \in Fields \ {"updatedAt"} :
                  IF Has(last.arg, f)
                  THEN Has(got, f) /\ got[f] = last.arg[f]
                  ELSE SameField(got, old, f)
         /\ Len(PostItems) = Len(PreItems)
         /\ \A i \in DOMAIN PreItems : i # PreIndex => PostItems[i] = PreItems[i]
    ELSE /\ last.ret = NoRecord
         /\ PostItems = PreItems
         /\ PostLog = PreLog

(***************************************************************************)
(* C7 as claimed: every successful update leaves updatedAt strictly        *)
(* greater than it was before the update.                                  *)
(***************************************************************************)
C7_UpdatedAtStrictlyGreater ==
  (last.op = "update" /\ last.hit) =>
     PreItems[PreIndex].updatedAt < PostItems[PreIndex].updatedAt

(***************************************************************************)
(* C7 as amended: every successful update sets updatedAt to the clock      *)
(* reading of the call, whatever the patch says, and that is never less    *)
(* than the value before the update.                                       *)
(***************************************************************************)
C7_UpdatedAtIsCallTime ==
  (last.op = "update" /\ last.hit) =>
     /\ PostItems[PreIndex].updatedAt = last.at
     /\ PreItems[PreIndex].updatedAt <= PostItems[PreIndex].updatedAt

\* an update that stamps the very millisecond the record already carried
C7_Witness ==
  /\ last.op = "update" /\ last.hit
  /\ PreItems[PreIndex].updatedAt = last.at
  /\ PostItems[PreIndex].updatedAt = last.at

(***************************************************************************)
(* C8: delete(K, id) on a hit removes exactly one record and keeps the     *)
(* others in their order; a delete of an id that is not (or no longer) in  *)
(* K leaves K unchanged and appends no Activity Record.                    *)
(***************************************************************************)
C8_DeleteRemovesOne ==
  (last.op = "delete") =>
    IF last.hit
    THEN /\ Len(PostItems) = Len(PreItems) - 1
         /\ PostItems = RemoveAt(PreItems, PreIndex)
         /\ ~Found(db, last.key, last.id)
    ELSE /\ PostItems = PreItems
         /\ PostLog = PreLog

(***************************************************************************)
(* C9: the activity log never holds more than 50 records; each add,        *)
(* update on a hit and delete on a hit prepends exactly one record with    *)
(* the matching action; once 50 or more mutations have been logged,        *)
(* getActivity(50) is exactly the 50 most recent ones, newest first.       *)
(***************************************************************************)
C9_ActivityRingBuffer ==
  /\ Len(PostLog) <= MaxActivities
  /\ PostLog = Take(hist \o seedActivity, MaxActivities)
  /\ (Len(hist) >= MaxActivities => getActivity(db, MaxActivities) = Take(hist, MaxActivities))
  /\ (last.op # "none" /\ last.hit) =>
        /\ Head(PostLog).action = ActionOf(last.op)
        /\ Head(PostLog).timestamp = last.at
        /\ Tail(PostLog) = Take(PreLog, MaxActivities - 1)
  /\ (last.op # "none" /\ ~last.hit) => PostLog = PreLog

\* more than 50 mutations were logged: the oldest one has left the buffer
C9_Witness ==
  /\ Len(hist) > MaxActivities
  /\ last.hit
  /\ hist[Len(hist)] \notin Range(PostLog)
  /\ Len(PostLog) = MaxActivities

(***************************************************************************)
(* Key-Value Store Adapter (js/utils.js, Utils.storage).                   *)
(*                                                                         *)
(* A text is a sequence of one-character strings.  A JavaScript value is a *)
(* record [t, n, s, kids]: t is its type, n the number, s the string's     *)
(* characters, kids the array's elements or the object's members in        *)
(* property order.  Numbers are integers; object keys are not array        *)
(* indices (those would be reordered by the engine).                       *)
(***************************************************************************)
JValue(t, n, s, kids) == [t |-> t, n |-> n, s |-> s, kids |-> kids]

JNull      == JValue("null", 0, <<>>, <<>>)
JTrue      == JValue("true", 0, <<>>, <<>>)
JFalse     == JValue("false", 0, <<>>, <<>>)
JUndefined == JValue("undefined", 0, <<>>, <<>>)
JNaN       == JValue("NaN", 0, <<>>, <<>>)
JNum(n)    == JValue("number", n, <<>>, <<>>)
JStr(s)    == JValue("string", 0, s, <<>>)
JArr(kids) == JValue("array", 0, <<>>, kids)
JObj(kids) == JValue("object", 0, <<>>, kids)

Member(k, v) == [k |-> k, v |-> v]

\* the values JSON can carry: no undefined, no NaN, at any depth
RECURSIVE IsJSON(_)
IsJSON(v) ==
  CASE v.t \in {"null", "true", "false", "number", "string"} -> TRUE
    [] v.t = "array"  -> \A i \in DOMAIN v.kids : IsJSON(v.kids[i])
    [] v.t = "object" -> \A i \in DOMAIN v.kids : IsJSON(v.kids[i].v)
    [] OTHER -> FALSE

TextNull      == <<"n", "u", "l", "l">>
TextTrue      == <<"t", "r", "u", "e">>
TextFalse     == <<"f", "a", "l", "s", "e">>
TextUndefined == <<"u", "n", "d", "e", "f", "i", "n", "e", "d">>

DigitChars == <<"0", "1", "2", "3", "4", "5", "6", "7", "8", "9">>

DigitSet == Range(DigitChars)

DigitVal(c) == (CHOOSE i \in DOMAIN DigitChars : DigitChars[i] = c) - 1

RECURSIVE NatDigits(_)
NatDigits(n) ==
  IF n < 10 THEN <<DigitChars[n + 1]>>
  ELSE NatDigits(n \div 10) \o <<DigitChars[(n % 10) + 1]>>

NumberText(n) == IF n < 0 THEN <<"-">> \o NatDigits(0 - n) ELSE NatDigits(n)

(***************************************************************************)
(* JSON.stringify (utils.js:343).                                          *)
(***************************************************************************)
\* a string's character written without its escape
EscapeChar_none(c) == <<c>>

EscapeChar(c) ==
  IF c = "\"" THEN <<"\\", "\"">>
  ELSE IF c = "\\" THEN <<"\\", "\\">>
  ELSE IF c = "\n" THEN <<"\\", "n">>
  ELSE IF c = "\t" THEN <<"\\", "t">>
  ELSE <<c>>

RECURSIVE EscapeAll(_)
EscapeAll(s) ==
  IF s = <<>> THEN <<>> ELSE EscapeChar(Head(s)) \o EscapeAll(Tail(s))

Quote(s) == <<"\"">> \o EscapeAll(s) \o <<"\"">>

RECURSIVE Str(_), StrElems(_), StrMembers(_, _)
Str(v) ==
  CASE v.t = "null"      -> TextNull
    [] v.t = "NaN"       -> TextNull
    [] v.t = "undefined" -> TextNull      \* as an array element
    [] v.t = "true"      -> TextTrue
    [] v.t = "false"     -> TextFalse
    [] v.t = "number"    -> NumberText(v.n)
    [] v.t = "string"    -> Quote(v.s)
    [] v.t = "array"     -> <<"[">> \o StrElems(v.kids) \o <<"]">>
    [] v.t = "object"    -> <<"{">> \o StrMembers(v.kids, TRUE) \o <<"}">>

StrElems(kids) ==
  IF kids = <<>> THEN <<>>
  ELSE Str(Head(kids))
         \o (IF Len(kids) > 1 THEN <<",">> \o StrElems(Tail(kids)) ELSE <<>>)

\* a member whose value is undefined is left out
StrMembers(kids, first) ==
  IF kids = <<>> THEN <<>>
  ELSE IF Head(kids).v.t = "undefined" THEN StrMembers(Tail(kids), first)
  ELSE (IF first THEN <<>> ELSE <<",">>)
         \o Quote(Head(kids).k) \o <<":">> \o Str(Head(kids).v)
         \o StrMembers(Tail(kids), FALSE)

\* JSON.stringify(undefined) is undefined, not a text
JSON_stringify(v) ==
  IF v.t = "undefined" THEN [undef |-> TRUE, text |-> <<>>]
  ELSE [undef |-> FALSE, text |-> Str(v)]

\* setItem stores String(x)
DOMString(x) == IF x.undef THEN TextUndefined ELSE x.text

(***************************************************************************)
(* JSON.parse (utils.js:329).  A parse yields [ok, v, rest]: whether it    *)
(* succeeded, the value, and the text not yet consumed.  Fractions,        *)
(* exponents and the escapes \b \f \r \u are outside the model's alphabet. *)
(***************************************************************************)
ParseFail == [ok |-> FALSE, v |-> JNull, rest |-> <<>>]

ParseOk(v, rest) == [ok |-> TRUE, v |-> v, rest |-> rest]

StartsWith(x, w) == Len(x) >= Len(w) /\ SubSeq(x, 1, Len(w)) = w

Drop(x, n) == SubSeq(x, n + 1, Len(x))

RECURSIVE SkipWs(_)
SkipWs(x) ==
  IF x # <<>> /\ Head(x) \in {" ", "\n", "\t"} THEN SkipWs(Tail(x)) ELSE x

Unescape(c) ==
  IF c = "n" THEN "\n" ELSE IF c = "t" THEN "\t" ELSE c

\* the characters of a string literal, after its opening quote
RECURSIVE ParseChars(_, _)
ParseChars(x, acc) ==
  IF x = <<>> THEN ParseFail
  ELSE IF Head(x) = "\"" THEN ParseOk(JStr(acc), Tail(x))
  ELSE IF Head(x) = "\\"
    THEN IF Len(x) >= 2 /\ x[2] \in {"\"", "\\", "/", "n", "t"}
         THEN ParseChars(Drop(x, 2), Append(acc, Unescape(x[2])))
         ELSE ParseFail
  ELSE IF Head(x) \in {"\n", "\t"} THEN ParseFail
  ELSE ParseChars(Tail(x), Append(acc, Head(x)))

RECURSIVE ParseDigits(_, _)
ParseDigits(x, acc) ==
  IF x # <<>> /\ Head(x) \in DigitSet
  THEN ParseDigits(Tail(x), 10 * acc + DigitVal(Head(x)))
  ELSE [n |-> acc, rest |-> x]

ParseNumber(x) ==
  LET neg == Head(x) = "-"
      y   == IF neg THEN Tail(x) ELSE x
  IN IF y = <<>> \/ Head(y) \notin DigitSet THEN ParseFail
     ELSE IF Head(y) = "0" THEN ParseOk(JNum(0), Tail(y))
     ELSE LET d == ParseDigits(y, 0)
          IN ParseOk(JNum(IF neg THEN 0 - d.n ELSE d.n), d.rest)

\* a repeated key keeps its first position and takes the later value
PutMember(acc, k, v) ==
  IF \E i \in DOMAIN acc : acc[i].k = k
  THEN [i \in DOMAIN acc |-> IF acc[i].k = k THEN Member(k, v) ELSE acc[i]]
  ELSE Append(acc, Member(k, v))

RECURSIVE ParseValue(_), ParseElems(_, _), ParseMembers(_, _)
ParseValue(x) ==
  IF x = <<>> THEN ParseFail
  ELSE IF StartsWith(x, TextNull) THEN ParseOk(JNull, Drop(x, 4))
  ELSE IF StartsWith(x, TextTrue) THEN ParseOk(JTrue, Drop(x, 4))
  ELSE IF StartsWith(x, TextFalse) THEN ParseOk(JFalse, Drop(x, 5))
  ELSE IF Head(x) = "\"" THEN ParseChars(Tail(x), <<>>)
  ELSE IF Head(x) = "["
    THEN LET y == SkipWs(Tail(x))
         IN IF y # <<>> /\ Head(y) = "]" THEN ParseOk(JArr(<<>>), Tail(y))
            ELSE ParseElems(y, <<>>)
  ELSE IF Head(x) = "{"
    THEN LET y == SkipWs(Tail(x))
         IN IF y # <<>> /\ Head(y) = "}" THEN ParseOk(JObj(<<>>), Tail(y))
            ELSE ParseMembers(y, <<>>)
  ELSE IF Head(x) = "-" \/ Head(x) \in DigitSet THEN ParseNumber(x)
  ELSE ParseFail

ParseElems(x, acc) ==
  LET r == ParseValue(x)
      y == SkipWs(r.rest)
  IN IF ~r.ok \/ y = <<>> THEN ParseFail
     ELSE IF Head(y) = "]" THEN ParseOk(JArr(Append(acc, r.v)), Tail(y))
     ELSE IF Head(y) = "," THEN ParseElems(SkipWs(Tail(y)), Append(acc, r.v))
     ELSE ParseFail

ParseMembers(x, acc) ==
  IF x = <<>> \/ Head(x) # "\"" THEN ParseFail
  ELSE LET k == ParseChars(Tail(x), <<>>)
           y == SkipWs(k.rest)
           r == ParseValue(SkipWs(Tail(y)))
           z == SkipWs(r.rest)
       IN IF ~k.ok \/ y = <<>> THEN ParseFail
          ELSE IF Head(y) # ":" THEN ParseFail
          ELSE IF ~r.ok \/ z = <<>> THEN ParseFail
          ELSE IF Head(z) = "}"
            THEN ParseOk(JObj(PutMember(acc, k.v.s, r.v)), Tail(z))
          ELSE IF Head(z) = ","
            THEN ParseMembers(SkipWs(Tail(z)), PutMember(acc, k.v.s, r.v))
          ELSE ParseFail

\* ok = FALSE stands for the SyntaxError that JSON.parse throws
JSON_parse(text) ==
  LET r == ParseValue(SkipWs(text))
  IN IF r.ok /\ SkipWs(r.rest) = <<>> THEN ParseOk(r.v, <<>>) ELSE ParseFail

(***************************************************************************)
(* window.localStorage and Utils.storage (utils.js:324-359).               *)
(***************************************************************************)
NoItem == [has |-> FALSE, text |-> <<>>]   \* getItem gives null

Item(text) == [has |-> TRUE, text |-> text]

getItem(ls, key) == ls[key]

setItem(ls, key, text) == [ls EXCEPT ![key] = Item(text)]

removeItem(ls, key) == [ls EXCEPT ![key] = NoItem]

storage_get(ls, key, fallback) ==
  LET dflt == IF fallback.t = "undefined" THEN JNull ELSE fallback
      val  == getItem(ls, key)
      r    == JSON_parse(val.text)
  IN IF ~val.has THEN dflt
     ELSE IF r.ok THEN r.v
     ELSE dflt

\* throws: setItem raises (quota exceeded, storage disabled); the catch
\* swallows it and nothing is written
storage_set(ls, key, value, throws) ==
  IF throws THEN ls ELSE setItem(ls, key, DOMString(JSON_stringify(value)))

storage_remove(ls, key) == removeItem(ls, key)

(***************************************************************************)
(* Inputs of the adapter's calls.                                          *)
(***************************************************************************)
KVKeys == {"gbe-sidebar-collapsed", "gbe-session-token"}

Chars(id) ==
  CASE id = "id"    -> <<"i", "d">>
    [] id = "tags"  -> <<"t", "a", "g", "s">>
    [] id = "quote" -> <<"a", "\"", "\\", "b", "\n">>
    [] id = "null"  -> TextNull
    [] id = "punct" -> <<",", "]", "}", ":", " ">>
    [] id = "token" -> <<"t", "k", "-", "9">>

JsonValues ==
  { JNull, JTrue, JNum(0), JNum(0 - 12),
    JStr(<<>>), JStr(Chars("quote")), JStr(Chars("null")),
    JArr(<<>>), JArr(<<JNum(305), JStr(Chars("punct")), JArr(<<JFalse>>)>>),
    JObj(<<Member(Chars("id"), JStr(Chars("quote"))),
           Member(Chars("tags"), JArr(<<JNull, JObj(<<>>)>>))>>) }

\* values JSON cannot carry
OtherValues ==
  { JUndefined, JNaN, JObj(<<Member(Chars("id"), JUndefined)>>) }

Values == JsonValues \cup OtherValues

Fallbacks == {JUndefined, JArr(<<>>)}   \* get(key) and get(key, [])

\* what a key may hold before the adapter touches it: nothing, a raw token
\* written with localStorage.setItem (auth.js:360), or JSON text
PriorItems == {NoItem, Item(Chars("token")), Item(<<" ", "[", " ", "]">>)}

ContentOf(ls, key) ==
  IF ~ls[key].has THEN "absent"
  ELSE IF JSON_parse(ls[key].text).ok THEN "json"
  ELSE "garbage"

NoPrev == [op |-> "none", key |-> "", value |-> JNull, ok |-> FALSE, was |-> "absent"]

Brief(l) ==
  IF l.op = "set"
  THEN [op |-> "set", key |-> l.key, value |-> l.value, ok |-> l.ok, was |-> l.was]
  ELSE NoPrev

NoKVCall ==
  [op |-> "none", key |-> "", value |-> JNull, ok |-> FALSE, was |-> "absent",
   ret |-> JNull, prev |-> NoPrev]

IdleKV ==
  /\ localStorage = [k \in KVKeys |-> NoItem]
  /\ lastKV = NoKVCall

StartKV ==
  /\ localStorage \in [KVKeys -> PriorItems]
  /\ lastKV = NoKVCall

\* the value of a write that failed is not kept: nothing is said of it
Set(key, value, throws) ==
  /\ localStorage' = storage_set(localStorage, key, value, throws)
  /\ lastKV' = [op |-> "set", key |-> key,
                value |-> IF throws THEN JUndefined ELSE value, ok |-> ~throws,
                was |-> ContentOf(localStorage, key), ret |-> JUndefined,
                prev |-> NoPrev]
  /\ UNCHANGED notKVVars

Get(key, fallback) ==
  /\ lastKV' = [op |-> "get", key |-> key, value |-> fallback, ok |-> TRUE,
                was |-> ContentOf(localStorage, key),
                ret |-> storage_get(localStorage, key, fallback),
                prev |-> Brief(lastKV)]
  /\ UNCHANGED localStorage
  /\ UNCHANGED notKVVars

Remove(key) ==
  /\ localStorage' = storage_remove(localStorage, key)
  /\ lastKV' = [op |-> "remove", key |-> key, value |-> JNull, ok |-> TRUE,
                was |-> ContentOf(localStorage, key), ret |-> JUndefined,
                prev |-> NoPrev]
  /\ UNCHANGED notKVVars

NextKV ==
  \/ \E key \in KVKeys, value \in Values, throws \in BOOLEAN : Set(key, value, throws)
  \/ \E key \in KVKeys, fallback \in Fallbacks : Get(key, fallback)
  \/ \E key \in KVKeys : Remove(key)

\* the last two calls were set(key, value) and get(key), and the write went through
SetThenGet ==
  /\ lastKV.op = "get"
  /\ lastKV.prev.op = "set"
  /\ lastKV.prev.key = lastKV.key
  /\ lastKV.prev.ok
  /\ IsJSON(lastKV.prev.value)

(***************************************************************************)
(* C10.  Store round-trip: for every key and every JSON-serializable       *)
(* value, Utils.storage.set(key, value) directly followed by               *)
(* Utils.storage.get(key) returns a value equal to the one written, when   *)
(* the write did not fail, whatever the key held before the set.           *)
(***************************************************************************)
C10_StoreRoundTrip == SetThenGet => lastKV.ret = lastKV.prev.value

C10_Witness ==
  /\ SetThenGet
  /\ lastKV.prev.was = "garbage"
  /\ lastKV.prev.value.t = "object"
  /\ lastKV.prev.value.kids # <<>>
  /\ lastKV.ret = lastKV.prev.value
  /\ Item(Str(lastKV.ret)) = localStorage[lastKV.key]

(***************************************************************************)
(* Router (js/router.js), Auth (js/auth.js) and PageLoader                 *)
(* (js/scroll-animations.js).                                              *)
(*                                                                         *)
(* The handlers are operators over a world w = [R, A, L, calls, F, modal,  *)
(* ls]: Router's fields, Auth's fields, PageLoader's fields, the log of    *)
(* navigateTo calls with the position each has reached, Firebase as the    *)
(* page sees it, the open dialog, and localStorage.  An action applies one *)
(* handler to the current world and commits the result.  Toasts, the       *)
(* breadcrumb, the active-link marking and the loading class are not       *)
(* modelled: no handler reads them.                                        *)
(***************************************************************************)
Null == "null"

\* router.js:15-58, four of the routes
Routes == {"home", "ent-roster", "dashboard-home", "dashboard-team"}

\* router.js:63-69, the aliases of the routes above
legacyRedirects == ("roster" :> "ent-roster") @@ ("services" :> "home")

\* router.js:75-82, restricted to Routes
localOnlyRoutes == {"dashboard-team"}

defaultPage == "home"

\* pageName.startsWith('dashboard-')
isDashboardRoute(pageName) == pageName \in {"dashboard-home", "dashboard-team"}

\* no 'biz-' route is among Routes
getVerticalForPage(pageName) ==
  IF pageName \in {"ent-roster"} THEN "ent" ELSE "neutral"

getLayoutForPage(pageName) ==
  IF isDashboardRoute(pageName) THEN "dashboard" ELSE "public"

TokenKey == "gbe-session-token"

TokenText == Chars("token")

\* the remote registration store: ann is an approved administrator, bob has
\* never signed in, cy is registered and waits for approval
Registrations ==
  [ann |-> [status |-> "approved", role |-> "admin"],
   bob |-> [status |-> "absent",   role |-> Null],
   cy  |-> [status |-> "pending",  role |-> "member"]]

Users == DOMAIN Registrations

Router0 ==
  [initialized |-> FALSE, currentPage |-> Null, currentLayout |-> Null,
   currentVertical |-> Null,
   hash |-> "",          \* window.location.hash without the '#'
   timer |-> Null,       \* the page handleInitialRoute's pending timer will open
   setter |-> 0]         \* the navigateTo call that last assigned currentPage

Auth0 ==
  [initialized |-> FALSE, _initializing |-> FALSE, _auth |-> FALSE, _db |-> FALSE,
   _user |-> Null, _pendingRoute |-> Null, _authorized |-> FALSE,
   _registrationStatus |-> Null, _role |-> Null, _sessionToken |-> NoItem,
   _serverUrl |-> Null, _isPinAuth |-> FALSE,
   verified |-> "none",  \* "failed" once the verification request was rejected
   pinEnded |-> FALSE,   \* a PIN session of this page load has been signed out
   provider |-> "none"]  \* what the last loginWithProvider call came to

Loader0 ==
  [cache |-> {}, content |-> [public |-> Null, dashboard |-> Null]]

Firebase0 ==
  [user |-> "unset",     \* the user of the last auth-state event
   reg |-> Registrations,
   checks |-> <<>>,      \* the _checkRegistration calls, in the order issued
   cur |-> 0,            \* the check issued for the user now in Auth._user
   events |-> 0,         \* auth-state events delivered, those signOut() asked for apart
   signOut |-> FALSE]    \* Auth._auth.signOut() was called, its event is due

isAuthenticated(A) ==
  \/ A._isPinAuth /\ A._authorized
  \/ A._user # Null /\ A._authorized

isAdmin(A) == isAuthenticated(A) /\ A._role = "admin"

isLocalDashboard(A) == A._serverUrl # Null

showLoginModal(w) == [w EXCEPT !.modal = "login"]

_showPendingApproval(w) == [w EXCEPT !.modal = "pending"]

ModalClose(w) == [w EXCEPT !.modal = "none"]

(***************************************************************************)
(* Auth.guardRoute (auth.js:770-810): the world it leaves and its answer.  *)
(***************************************************************************)
Guarded(w, ok) == [w |-> w, ok |-> ok]

guardRoute(w, pageName) ==
  IF ~w.env.enableAuth THEN Guarded(w, TRUE)
  ELSE IF ~isDashboardRoute(pageName) THEN Guarded(w, TRUE)
  ELSE IF w.A._initializing
    THEN Guarded([w EXCEPT !.A._pendingRoute = pageName], FALSE)
  ELSE IF ~w.A.initialized
    THEN Guarded(showLoginModal([w EXCEPT !.A._pendingRoute = pageName]), FALSE)
  ELSE IF isAuthenticated(w.A) THEN Guarded(w, TRUE)
  ELSE IF w.A._user # Null /\ w.A._registrationStatus = "pending"
    THEN Guarded(_showPendingApproval(w), FALSE)
  ELSE Guarded(showLoginModal([w EXCEPT !.A._pendingRoute = pageName]), FALSE)

(***************************************************************************)
(* Router.navigateTo up to its first await (router.js:146-200), with       *)
(* PageLoader.loadPage up to its first await (scroll-animations.js:173-    *)
(* 181, 220-232).  The call is appended to the log with what it did.       *)
(***************************************************************************)
\* the guard's answer is ignored
guardPassed_always(g) == TRUE

\* router.js:160
guardPassed(g) == g.ok

\* the skip test never holds
alreadyThere_never(R, pageName, forceLoad) == FALSE

\* router.js:183
alreadyThere(R, pageName, forceLoad) == pageName = R.currentPage /\ ~forceLoad

\* the admin guard lets everyone through
adminDenied_never(A, pageName) == FALSE

\* router.js:165
adminDenied(A, pageName) == pageName = "dashboard-team" /\ ~isAdmin(A)

\* the local-only guard sends the user to the public home page
localOnlyTarget_public == "home"

\* router.js:177
localOnlyTarget == "dashboard-home"

ResolveRoute(name) ==
  LET p == IF name \in DOMAIN legacyRedirects THEN legacyRedirects[name] ELSE name
  IN IF p \in Routes THEN p ELSE defaultPage

\* w0 is the world at the call, w the world the synchronous part leaves
Logged(w0, w, name, forceLoad, outcome, fetched, container, phase) ==
  [w EXCEPT !.calls = Append(@,
    [name |-> name, page |-> ResolveRoute(name), force |-> forceLoad,
     auth |-> isAuthenticated(w0.A), admin |-> isAdmin(w0.A),
     local |-> isLocalDashboard(w0.A), outcome |-> outcome,
     toast |-> outcome \in {"denied", "redirected"},
     fetched |-> fetched,
     switched |-> w.R.currentLayout # w0.R.currentLayout,
     container |-> container, phase |-> phase, failed |-> FALSE,
     cur |-> w0.R.setter])]

switchLayout(R, mode) == [R EXCEPT !.currentLayout = mode]

updateTheme(R, pageName) ==
  IF isDashboardRoute(pageName) THEN R
  ELSE [R EXCEPT !.currentVertical = getVerticalForPage(pageName)]

getActiveContainer(R) ==
  IF R.currentLayout = "dashboard" THEN "dashboard" ELSE "public"

\* the call goes ahead: layout, theme, then loadPage up to the fetch or,
\* with the content cached, up to the fade-out timer
Started(w0, w, name, forceLoad) ==
  LET pageName == ResolveRoute(name)
      R1 == IF getLayoutForPage(pageName) # w.R.currentLayout
            THEN switchLayout(w.R, getLayoutForPage(pageName)) ELSE w.R
      R2 == updateTheme(R1, pageName)
      cached == pageName \in w.L.cache
  IN Logged(w0, [w EXCEPT !.R = R2], name, forceLoad, "started", ~cached,
            getActiveContainer(R2), IF cached THEN "fadeOut" ELSE "fetch")

RECURSIVE navigateTo(_, _, _)
navigateTo(w, name, forceLoad) ==
  LET pageName == ResolveRoute(name)
      g == guardRoute(w, pageName)
  IN IF ~guardPassed(g)
       THEN Logged(w, g.w, name, forceLoad, "blocked", FALSE, Null, "none")
     ELSE IF adminDenied(g.w.A, pageName)
       THEN Logged(w, g.w, name, forceLoad, "denied", FALSE, Null, "none")
     ELSE IF pageName \in localOnlyRoutes /\ ~isLocalDashboard(g.w.A)
       THEN navigateTo(Logged(w, g.w, name, forceLoad, "redirected", FALSE, Null, "none"),
                       localOnlyTarget, FALSE)
     ELSE IF alreadyThere(g.w.R, pageName, forceLoad)
       THEN Logged(w, g.w, name, forceLoad, "skipped", FALSE, Null, "none")
     ELSE Started(w, g.w, name, forceLoad)

\* as Arrived, with a call that is no longer the latest one giving way
Arrived_lastCall(w, i) ==
  IF i = Len(w.calls)
  THEN [w EXCEPT !.R.hash = w.calls[i].page,
                 !.R.currentPage = w.calls[i].page,
                 !.R.setter = i,
                 !.calls[i].phase = "done"]
  ELSE [w EXCEPT !.calls[i].phase = "done"]

\* router.js:203-206 after loadPage has returned: updateURL, currentPage
Arrived(w, i) ==
  [w EXCEPT !.R.hash = w.calls[i].page,
            !.R.currentPage = w.calls[i].page,
            !.R.setter = i,
            !.calls[i].phase = "done"]

(***************************************************************************)
(* Auth: start-up (auth.js:66-275).                                        *)
(***************************************************************************)
\* the Firebase SDK and its configuration are present (config.js), so
\* _initFirebase stops early only at the feature flag
_initFirebase(w) ==
  IF w.A.initialized THEN w
  ELSE IF ~w.env.enableAuth THEN [w EXCEPT !.A.initialized = TRUE]
  ELSE [w EXCEPT !.A._auth = TRUE, !.A._db = TRUE, !.A.initialized = TRUE]

_detectServerUrl(w) == IF w.env.local THEN "origin" ELSE Null

Auth_init(w) ==
  IF w.A.initialized \/ w.A._initializing THEN w
  ELSE LET w1 == [w EXCEPT !.A._serverUrl = _detectServerUrl(w)]
           w2 == [w1 EXCEPT !.A._sessionToken = getItem(w.ls, TokenKey)]
       IN IF w1.A._serverUrl = Null THEN _initFirebase(w1)
          ELSE IF w2.A._sessionToken.has THEN [w2 EXCEPT !.A._initializing = TRUE]
          ELSE _initFirebase(w2)

\* the stored token is accepted: the PIN session is restored (auth.js:83-98)
VerifiedValid(w) ==
  LET w1 == [w EXCEPT !.A._initializing = FALSE, !.A._isPinAuth = TRUE,
                      !.A._authorized = TRUE, !.A._registrationStatus = "approved",
                      !.A._role = "admin", !.A.initialized = TRUE]
  IN IF isDashboardRoute(w1.R.hash) THEN navigateTo(w1, w1.R.hash, TRUE) ELSE w1

\* the token is refused, or the request failed and _verifySession turned
\* that into {valid: false} (auth.js:99-106, 406-408)
VerifiedInvalid(w) ==
  _initFirebase([w EXCEPT !.A._initializing = FALSE,
                          !.ls = removeItem(w.ls, TokenKey),
                          !.A._sessionToken = NoItem])

\* as PinAccepted, with the token kept in memory only
PinAccepted_unsaved(w) ==
  LET w1 == [w EXCEPT !.A._sessionToken = Item(TokenText), !.A._isPinAuth = TRUE,
                      !.A._authorized = TRUE, !.A._registrationStatus = "approved",
                      !.A._role = "admin", !.A.initialized = TRUE]
      w2 == ModalClose(w1)
  IN IF w2.A._pendingRoute # Null
     THEN navigateTo([w2 EXCEPT !.A._pendingRoute = Null], w2.A._pendingRoute, TRUE)
     ELSE w2

\* loginWithPin's response handler for an accepted PIN (auth.js:352-382)
PinAccepted(w) ==
  LET w1 == [w EXCEPT !.A._sessionToken = Item(TokenText), !.A._isPinAuth = TRUE,
                      !.A._authorized = TRUE, !.A._registrationStatus = "approved",
                      !.A._role = "admin", !.A.initialized = TRUE,
                      !.ls = setItem(w.ls, TokenKey, TokenText)]
      w2 == ModalClose(w1)
  IN IF w2.A._pendingRoute # Null
     THEN navigateTo([w2 EXCEPT !.A._pendingRoute = Null], w2.A._pendingRoute, TRUE)
     ELSE w2

(***************************************************************************)
(* Auth: the auth-state listener and the registration check                *)
(* (auth.js:209-271, 544-588).                                             *)
(***************************************************************************)
\* as CheckThen, with the remembered route left where it is
CheckThen_noReplay(w, status) ==
  LET w1 == [w EXCEPT !.A._registrationStatus = status,
                      !.A._authorized = (status = "approved")]
  IN IF status = "approved" THEN ModalClose(w1)
     ELSE IF status = "pending" THEN _showPendingApproval(w1)
     ELSE IF status = "denied" THEN [w1 EXCEPT !.F.signOut = TRUE]
     ELSE w1

\* the listener's .then: the check for some user has given status
CheckThen(w, status) ==
  LET w1 == [w EXCEPT !.A._registrationStatus = status,
                      !.A._authorized = (status = "approved")]
  IN IF status = "approved"
       THEN LET w2 == ModalClose(w1)
            IN IF w2.A._pendingRoute # Null
               THEN navigateTo([w2 EXCEPT !.A._pendingRoute = Null],
                               w2.A._pendingRoute, TRUE)
               ELSE w2
     ELSE IF status = "pending" THEN _showPendingApproval(w1)
     ELSE IF status = "denied" THEN [w1 EXCEPT !.F.signOut = TRUE]
     ELSE w1

\* the listener's .catch: fail open
CheckCatch(w) ==
  [w EXCEPT !.A._authorized = TRUE, !.A._registrationStatus = "approved",
            !.A._role = "admin"]

NewCheck(user) == [user |-> user, phase |-> "get", result |-> "none"]

\* _checkRegistration up to its first await; without Firestore it resolves
\* 'approved' at once
_checkRegistration(w, user) ==
  IF ~w.A._db THEN CheckThen(w, "approved")
  ELSE [w EXCEPT !.F.checks = Append(@, NewCheck(user)),
                 !.F.cur = Len(w.F.checks) + 1]

onAuthStateChanged(w, user) ==
  IF w.A._isPinAuth THEN w
  ELSE IF user # Null
    THEN _checkRegistration([w EXCEPT !.A._user = user], user)
  ELSE LET w1 == [w EXCEPT !.A._user = Null, !.F.cur = 0, !.A._authorized = FALSE,
                           !.A._registrationStatus = Null, !.A._role = Null]
       IN IF w1.R.currentPage # Null /\ isDashboardRoute(w1.R.currentPage)
          THEN navigateTo(w1, "home", FALSE)
          ELSE w1

\* userRef.get() has resolved (auth.js:552-585)
GotRegistration(w, i) ==
  LET user == w.F.checks[i].user
      data == w.F.reg[user]
  IN IF data.status # "absent"
     THEN CheckThen([w EXCEPT !.A._role = data.role,
                              !.F.checks[i].phase = "done",
                              !.F.checks[i].result = data.status],
                    data.status)
     ELSE [w EXCEPT !.A._role = "member", !.F.checks[i].phase = "set"]

\* userRef.set() has resolved: the new registration exists (auth.js:567-581)
SetRegistration(w, i) ==
  CheckThen([w EXCEPT !.F.reg[w.F.checks[i].user] = [status |-> "pending", role |-> "member"],
                      !.F.checks[i].phase = "done",
                      !.F.checks[i].result = "pending"],
            "pending")

\* the hash, the get or the set has been rejected
FailedRegistration(w, i) ==
  CheckCatch([w EXCEPT !.F.checks[i].phase = "done",
                       !.F.checks[i].result = "failed"])

(***************************************************************************)
(* The state of the page and its steps.                                    *)
(***************************************************************************)
W ==
  [R |-> router, A |-> auth, L |-> loader, calls |-> calls, F |-> fb,
   modal |-> modal, ls |-> localStorage, env |-> env]

CommitPage(w) ==
  /\ router' = w.R
  /\ auth' = w.A
  /\ loader' = w.L
  /\ calls' = w.calls
  /\ fb' = w.F
  /\ modal' = w.modal
  /\ localStorage' = w.ls
  /\ UNCHANGED env

Commit(w) ==
  /\ CommitPage(w)
  /\ UNCHANGED notNavVars

\* the handler's navigateTo calls and the auth-state event are within the
\* bounds of one behaviour
Fits(w) ==
  /\ Len(w.calls) <= MaxCalls
  /\ w.F.events <= MaxAuthEvents
  /\ Len(w.calls) + w.F.events <= MaxEvents

Environments ==
  [local : BOOLEAN, enableAuth : BOOLEAN]

InitialHashes == {""}

\* the page as loaded, before DOMContentLoaded
StartNav ==
  /\ env \in Environments
  /\ \E h \in InitialHashes : router = [Router0 EXCEPT !.hash = h]
  /\ auth = Auth0
  /\ loader = Loader0
  /\ calls = <<>>
  /\ fb = Firebase0
  /\ modal = "none"
  /\ loads = 1
  /\ logoutDue = FALSE
  /\ \E item \in {NoItem, Item(TokenText)} :
       /\ item.has => env.local
       /\ localStorage = [k \in KVKeys |-> IF k = TokenKey THEN item ELSE NoItem]

\* the page at rest, while another part of the program runs
IdleNav ==
  /\ env = [local |-> FALSE, enableAuth |-> TRUE]
  /\ router = Router0
  /\ auth = Auth0
  /\ loader = Loader0
  /\ calls = <<>>
  /\ fb = Firebase0
  /\ modal = "none"
  /\ loads = 1
  /\ logoutDue = FALSE

\* DOMContentLoaded: Auth.init (auth.js:1281-1288) and Router.init
\* (router.js:437-443), no step of the page between them
Boot ==
  /\ ~router.initialized
  /\ LET w1 == Auth_init(W)
     IN Commit([w1 EXCEPT !.R.initialized = TRUE,
                          !.R.timer = ResolveRoute(w1.R.hash)])

\* handleInitialRoute's timer fires (router.js:301-315)
InitialRoute ==
  /\ router.timer # Null
  /\ LET w == navigateTo([W EXCEPT !.R.timer = Null], router.timer, TRUE)
     IN Fits(w) /\ Commit(w)

\* a click on a link (router.js:132-143)
Click(name) ==
  /\ router.initialized
  /\ LET w == navigateTo(W, name, FALSE)
     IN Fits(w) /\ Commit(w)

\* back / forward / an edited address (router.js:320-331)
PopState(h) ==
  /\ router.initialized
  /\ LET w == navigateTo([W EXCEPT !.R.hash = h], ResolveRoute(h), TRUE)
     IN Fits(w) /\ Commit(w)

\* the content has arrived and is cached (scroll-animations.js:233-244)
FetchOk(i) ==
  /\ i \in DOMAIN calls
  /\ calls[i].phase = "fetch"
  /\ Commit([W EXCEPT !.L.cache = @ \cup {calls[i].page},
                      !.calls[i].phase = "fadeOut"])

\* the fetch failed or was answered with a non-2xx status: the error view,
\* then navigateTo goes on (scroll-animations.js:211-214, router.js:203-206)
FetchFail(i) ==
  /\ i \in DOMAIN calls
  /\ calls[i].phase = "fetch"
  /\ Commit(Arrived([W EXCEPT !.L.content[calls[i].container] = "error",
                              !.calls[i].failed = TRUE], i))

\* the fade-out timer fires: the content is inserted
FadeOutDone(i) ==
  /\ i \in DOMAIN calls
  /\ calls[i].phase = "fadeOut"
  /\ Commit([W EXCEPT !.L.content[calls[i].container] = calls[i].page,
                      !.calls[i].phase = "fadeIn"])

\* the fade-in timer fires: loadPage returns and navigateTo goes on
FadeInDone(i) ==
  /\ i \in DOMAIN calls
  /\ calls[i].phase = "fadeIn"
  /\ Commit(Arrived(W, i))

VerifyResolved(valid) ==
  /\ auth._initializing
  /\ LET w == IF valid THEN VerifiedValid(W) ELSE VerifiedInvalid(W)
     IN Fits(w) /\ Commit(w)

\* a rejected request is taken for an accepted token
_verifySession_failOpen(answer) ==
  [valid |-> answer \in {"valid", "failed"}]

\* Auth._verifySession (auth.js:395-409): the service's answer, or
\* {valid: false} when the request was rejected
_verifySession(answer) ==
  IF answer = "failed" THEN [valid |-> FALSE]
  ELSE [valid |-> answer = "valid"]

\* the verification request fails at the network level
VerifyFailed ==
  /\ auth._initializing
  /\ LET w0 == [W EXCEPT !.A.verified = "failed"]
         w == IF _verifySession("failed").valid
              THEN VerifiedValid(w0) ELSE VerifiedInvalid(w0)
     IN Fits(w) /\ Commit(w)

\* the PIN form of the login dialog, on the local network (auth.js:985-1003)
LoginWithPin ==
  /\ modal = "login"
  /\ auth._serverUrl # Null
  /\ LET w == PinAccepted(W)
     IN Fits(w) /\ Commit(w)

\* Firebase reports a sign-in (popup, restored session, another tab) or a
\* sign-out
AuthStateChanged(user) ==
  /\ auth._auth
  /\ user # fb.user
  /\ LET w == onAuthStateChanged(
                [W EXCEPT !.F.user = user,
                          !.F.events = IF user = Null /\ fb.signOut THEN @ ELSE @ + 1,
                          !.F.signOut = IF user = Null THEN FALSE ELSE @],
                user)
     IN Fits(w) /\ Commit(w)

CheckGet(i) ==
  /\ i \in DOMAIN fb.checks
  /\ fb.checks[i].phase = "get"
  /\ LET w == GotRegistration(W, i)
     IN Fits(w) /\ Commit(w)

CheckSet(i) ==
  /\ i \in DOMAIN fb.checks
  /\ fb.checks[i].phase = "set"
  /\ Commit(SetRegistration(W, i))

CheckFail(i) ==
  /\ i \in DOMAIN fb.checks
  /\ fb.checks[i].phase \in {"get", "set"}
  /\ Commit(FailedRegistration(W, i))

\* the dialog is dismissed (auth.js:947-949, 1099-1101)
ModalCancel ==
  /\ modal # "none"
  /\ Commit([W EXCEPT !.modal = "none", !.A._pendingRoute = Null])

ClickNames == {"home", "roster", "dashboard-home", "dashboard-team"}

PopHashes == {"nope"}

Next ==
  \/ Boot
  \/ InitialRoute
  \/ \E name \in ClickNames : Click(name)
  \/ \E h \in PopHashes : PopState(h)
  \/ \E i \in 1..MaxCalls : FetchOk(i)
  \/ \E i \in 1..MaxCalls : FetchFail(i)
  \/ \E i \in 1..MaxCalls : FadeOutDone(i)
  \/ \E i \in 1..MaxCalls : FadeInDone(i)
  \/ \E valid \in BOOLEAN : VerifyResolved(valid)
  \/ LoginWithPin
  \/ \E user \in Users \cup {Null} : AuthStateChanged(user)
  \/ \E i \in 1..MaxAuthEvents : CheckGet(i)
  \/ \E i \in 1..MaxAuthEvents : CheckSet(i)
  \/ \E i \in 1..MaxAuthEvents : CheckFail(i)
  \/ ModalCancel

(***************************************************************************)
(* What the log of navigateTo calls shows.                                 *)
(***************************************************************************)
\* the call passed every guard: it was skipped as already current or went ahead
Permitted(c) == c.outcome \in {"skipped", "started"}

\* calls i and i+1 name the same route, unforced, and both were permitted
SamePair(i) ==
  /\ i + 1 \in DOMAIN calls
  /\ calls[i].name = calls[i + 1].name
  /\ ~calls[i].force /\ ~calls[i + 1].force
  /\ Permitted(calls[i]) /\ Permitted(calls[i + 1])

Fetches(i) == IF calls[i].fetched THEN 1 ELSE 0

\* when call i+1 was issued, call i had finished and no other navigation
\* had finished after it: the route was still the current one
StillCurrent(i) ==
  \/ calls[i + 1].cur = i
  \/ calls[i].outcome = "skipped" /\ calls[i + 1].cur = calls[i].cur

PendingApproval ==
  /\ auth._user # Null
  /\ ~auth._isPinAuth
  /\ fb.cur # 0
  /\ fb.checks[fb.cur].user = auth._user
  /\ fb.checks[fb.cur].result = "pending"

(***************************************************************************)
(* C2.  A federated sign-in whose registration is 'pending' (found so, or  *)
(* newly created) leaves Auth in pending-approval: from then on            *)
(* Auth.isAuthenticated() is false, no sign-out has been requested, and    *)
(* Auth.guardRoute answers false for every 'dashboard-*' route.            *)
(***************************************************************************)
C2_PendingStaysOut ==
  PendingApproval
    => /\ ~isAuthenticated(auth)
       /\ ~fb.signOut
       /\ \A r \in Routes : isDashboardRoute(r) => ~guardRoute(W, r).ok

KEYS ==
  [FINANCES_REVENUE |-> "gbe-revenue", FINANCES_EXPENSES |-> "gbe-expenses",
   INVOICES |-> "gbe-invoices", EVENTS |-> "gbe-events", BOOKINGS |-> "gbe-bookings",
   IP_RIGHTS |-> "gbe-ip-rights", DOCUMENTS |-> "gbe-documents",
   MERCH_PRODUCTS |-> "gbe-merch-products", MERCH_ORDERS |-> "gbe-merch-orders",
   TRAVEL |-> "gbe-travel", DISTRIBUTION |-> "gbe-distribution",
   SETTINGS |-> "gbe-settings", CHECKLIST |-> "gbe-checklist",
   VENUE_LEADS |-> "gbe-venue-leads", IT_CREDENTIALS |-> "gbe-it-credentials",
   IT_SERVERS |-> "gbe-it-servers"]

DATA_V2 == "gbe-data-v2"

\* the keys the remote-tier migration removes (data-store.js:1206-1207)
sensitiveKeys ==
  <<KEYS.FINANCES_REVENUE, KEYS.FINANCES_EXPENSES, KEYS.INVOICES, KEYS.DOCUMENTS,
    KEYS.SETTINGS, KEYS.CHECKLIST>>

\* what the seed functions of lines 1239-1249 write, in that order
SharedKeys ==
  <<ROSTER, CONTRACTS, KEYS.EVENTS, KEYS.BOOKINGS, KEYS.IP_RIGHTS,
    KEYS.MERCH_PRODUCTS, KEYS.MERCH_ORDERS, KEYS.TRAVEL, KEYS.DISTRIBUTION,
    KEYS.VENUE_LEADS, KEYS.IT_SERVERS, ACTIVITY>>

\* what the seed functions of lines 1253-1257 write, in that order
LocalKeys ==
  <<KEYS.FINANCES_REVENUE, KEYS.FINANCES_EXPENSES, KEYS.INVOICES, KEYS.DOCUMENTS,
    KEYS.SETTINGS, KEYS.CHECKLIST, KEYS.IT_CREDENTIALS>>

\* records 'prefix-001' .. 'prefix-00n', reduced to their ids
Numbered(prefix, n) == [i \in 1..n |-> [id |-> prefix \o "-00" \o ToString(i)]]

\* the value each seed function saves; the venue leads (31 records) and the
\* checklist (31) are cut to their first records
Fixture(key) ==
  CASE key = ROSTER                 -> seedRoster
    [] key = CONTRACTS              -> seedContracts
    [] key = ACTIVITY               -> seedActivity
    [] key = KEYS.EVENTS            -> Numbered("evt", 4)
    [] key = KEYS.BOOKINGS          -> Numbered("book", 2)
    [] key = KEYS.IP_RIGHTS         -> Numbered("ip", 3)
    [] key = KEYS.MERCH_PRODUCTS    -> Numbered("merch", 2)
    [] key = KEYS.MERCH_ORDERS      -> <<>>
    [] key = KEYS.TRAVEL            -> Numbered("trip", 1)
    [] key = KEYS.DISTRIBUTION      -> Numbered("rel", 1)
    [] key = KEYS.VENUE_LEADS       -> Numbered("vl", 3)
    [] key = KEYS.IT_SERVERS        -> Numbered("srv", 6)
    [] key = KEYS.FINANCES_REVENUE  -> Numbered("rev", 2)
    [] key = KEYS.FINANCES_EXPENSES -> Numbered("exp", 3)
    [] key = KEYS.INVOICES          -> Numbered("inv", 1)
    [] key = KEYS.DOCUMENTS         -> Numbered("doc", 8)
    [] key = KEYS.SETTINGS          -> [companyName |-> "Gold Bottom Ent LLC"]
    [] key = KEYS.CHECKLIST         -> Numbered("chk", 3)
    [] key = KEYS.IT_CREDENTIALS    -> Numbered("cred", 8)

\* the seed functions named by keys, one after the other
RECURSIVE SeedEach(_, _)
SeedEach(d, keys) ==
  IF keys = <<>> THEN d
  ELSE SeedEach(_save(d, Head(keys), Fixture(Head(keys))), Tail(keys))

\* Utils.storage.remove(key) for each key
Removed(d, keys) == [k \in DOMAIN d \ Range(keys) |-> d[k]]

\* as StoredTruthy, with an empty array read as no data
StoredTruthy_nonEmpty(d, key) ==
  key \in DOMAIN d /\ d[key] # (IF key = DATA_V2 THEN "" ELSE <<>>)

\* Utils.storage.get(key) in a condition: null when the key has no entry;
\* arrays and objects are truthy, a text unless it is empty
StoredTruthy(d, key) ==
  key \in DOMAIN d /\ (key = DATA_V2 => d[key] # "")

\* as SeedIfEmpty, without the tiers: everything is seeded wherever the page runs
SeedIfEmpty_untiered(d, isLocal) ==
  IF StoredTruthy(d, ROSTER) THEN d ELSE SeedEach(SeedEach(d, SharedKeys), LocalKeys)

\* DataStore.seedIfEmpty (data-store.js:1201-1261) in tier isLocal: the
\* remote-tier migration, the three one-time seeds, then the full seeding of
\* a store without roster
SeedIfEmpty(d, isLocal) ==
  LET d1 == IF ~isLocal /\ ~StoredTruthy(d, DATA_V2)
            THEN _save(Removed(d, sensitiveKeys), DATA_V2, "remote") ELSE d
      d2 == IF ~StoredTruthy(d1, KEYS.VENUE_LEADS)
            THEN SeedEach(d1, <<KEYS.VENUE_LEADS>>) ELSE d1
      d3 == IF isLocal /\ ~StoredTruthy(d2, KEYS.IT_CREDENTIALS)
            THEN SeedEach(d2, <<KEYS.IT_CREDENTIALS>>) ELSE d2
      d4 == IF ~StoredTruthy(d3, KEYS.IT_SERVERS)
            THEN SeedEach(d3, <<KEYS.IT_SERVERS>>) ELSE d3
  IN  IF StoredTruthy(d4, ROSTER) THEN d4
      ELSE IF isLocal THEN SeedEach(SeedEach(d4, SharedKeys), LocalKeys)
      ELSE SeedEach(d4, SharedKeys)

\* a store nothing has been written to
Fresh == [k \in {} |-> <<>>]

\* a store seeded in the local tier by the earlier seedIfEmpty
\* (data-store.js:374-412), which knew no venue leads and no IT keys; the
\* migration at line 1204 expects such data in the remote tier as well
Legacy ==
  SeedEach(Fresh, <<ROSTER, CONTRACTS, KEYS.EVENTS, KEYS.BOOKINGS, KEYS.IP_RIGHTS,
                    KEYS.MERCH_PRODUCTS, KEYS.MERCH_ORDERS, KEYS.TRAVEL,
                    KEYS.DISTRIBUTION, ACTIVITY, KEYS.FINANCES_REVENUE,
                    KEYS.FINANCES_EXPENSES, KEYS.INVOICES, KEYS.DOCUMENTS,
                    KEYS.SETTINGS, KEYS.CHECKLIST>>)

\* deleteTalent for every id of ids, at time SeedTime
RECURSIVE DeleteEach(_, _)
DeleteEach(d, ids) ==
  IF ids = <<>> THEN d
  ELSE DeleteEach(_delete(d, ROSTER, Head(ids), SeedTime, 0), Tail(ids))

\* a store seeded in tier isLocal whose roster the user has emptied since
Emptied(isLocal) ==
  DeleteEach(SeedIfEmpty(Fresh, isLocal),
             <<"talent-001", "talent-002", "talent-003", "talent-004">>)

(***************************************************************************)
(* Seeding as the page runs it.                                            *)
(***************************************************************************)
\* DataStore.init (data-store.js:799-802): seedIfEmpty in the tier Auth
\* reports at this moment
DataStore_init ==
  /\ db' = SeedIfEmpty(db, isLocalDashboard(auth))
  /\ last' = [op |-> "seed", key |-> ROSTER, id |-> "",
              arg |-> [local |-> isLocalDashboard(auth)], ret |-> <<>>,
              hit |-> isLocalDashboard(auth) \in tiers, at |-> now, pre |-> db]
  /\ tiers' = tiers \cup {isLocalDashboard(auth)}
  /\ UNCHANGED <<now, nMut, hist>>
  /\ UNCHANGED <<localStorage, lastKV, env, router, auth, loader, calls, fb, modal, loads, logoutDue>>

\* Auth.init (auth.js:66-119) up to its first await: from here on
\* isLocalDashboard() tells the tier
AuthInit ==
  /\ ~auth.initialized /\ ~auth._initializing
  /\ auth' = Auth_init(W).A
  /\ UNCHANGED <<db, now, nMut, last, hist, tiers>>
  /\ UNCHANGED <<localStorage, lastKV, env, router, loader, calls, fb, modal, loads, logoutDue>>

\* the store the page finds: never written, seeded by the earlier version,
\* or seeded in some tier and its roster emptied since; nothing has run yet
StartSeed ==
  /\ now = 1
  /\ nMut = 0
  /\ last = NoCall
  /\ hist = <<>>
  /\ env \in Environments
  /\ \/ db \in {Fresh, Legacy} /\ tiers = {}
     \/ \E t \in BOOLEAN :
          /\ t => env.local
          /\ db = Emptied(t)
          /\ tiers = {t}

InitSeed ==
  /\ StartSeed
  /\ IdleKV
  /\ router = Router0 /\ auth = Auth0 /\ loader = Loader0 /\ calls = <<>>
  /\ fb = Firebase0 /\ modal = "none" /\ loads = 1 /\ logoutDue = FALSE

\* the user's calls come after the first seeding
UserCall ==
  /\ tiers # {}
  /\ NextStore

NextSeed ==
  \/ DataStore_init
  \/ AuthInit
  \/ UserCall

(***************************************************************************)
(* C11.  Seeding: one call of seedIfEmpty on a fresh store leaves the      *)
(* roster with exactly the four fixture records; a further call in a tier  *)
(* in which seedIfEmpty has already run changes no key of the store, also  *)
(* after records were added, updated or deleted in between, every roster   *)
(* record included.                                                        *)
(***************************************************************************)
C11_SeedOnceThenNoOp ==
  /\ (last.op = "seed" /\ last.pre = Fresh)
       => /\ ROSTER \in DOMAIN db
          /\ db[ROSTER] = seedRoster
          /\ Len(db[ROSTER]) = 4
  /\ (last.op = "seed" /\ last.hit) => db = last.pre

\* the second call finds the roster emptied and leaves it so
C11_Witness ==
  /\ last.op = "seed"
  /\ last.hit
  /\ ROSTER \in DOMAIN last.pre
  /\ last.pre[ROSTER] = <<>>
  /\ db = last.pre

MaxLoads == 2

\* location.reload() or the browser's reload: the scripts start afresh, the
\* address and localStorage stay, what the old page had in flight is gone;
\* Auth.init and Router.init run at the next DOMContentLoaded.  Without a
\* stored token the new page starts as the first one did, so the reloads
\* followed here are those with a token in the store
Reload ==
  /\ router.initialized
  /\ localStorage[TokenKey].has
  /\ loads < MaxLoads
  /\ loads' = loads + 1
  /\ router' = [Router0 EXCEPT !.hash = router.hash]
  /\ auth' = Auth0
  /\ loader' = Loader0
  /\ calls' = <<>>
  /\ fb' = [fb EXCEPT !.user = "unset", !.checks = <<>>, !.cur = 0, !.signOut = FALSE]
  /\ modal' = "none"
  /\ UNCHANGED <<localStorage, env, logoutDue>>
  /\ UNCHANGED <<db, now, nMut, last, hist, lastKV, tiers>>

NextSession ==
  \/ Next
  \/ Reload

(***************************************************************************)
(* C13.  PIN login and restore: on the local network an accepted           *)
(* loginWithPin leaves isAuthenticated() and isAdmin() true and the token  *)
(* stored under 'gbe-session-token'; after a reload, when the verification *)
(* service accepts the stored token, Auth.init ends with isAuthenticated() *)
(* and isAdmin() true, and no login dialog is shown from the reload up to  *)
(* that point.                                                             *)
(***************************************************************************)
C13_PinLoginAndRestore ==
  /\ [][LoginWithPin =>
          /\ ~isAuthenticated(auth) => isAuthenticated(auth')
          /\ isAdmin(auth')
          /\ localStorage'[TokenKey] = Item(TokenText)
          /\ auth'._sessionToken = Item(TokenText)]_vars
  /\ [][VerifyResolved(TRUE) =>
          /\ isAuthenticated(auth')
          /\ isAdmin(auth')
          /\ auth'.initialized
          /\ modal' # "login"]_vars
  /\ [](auth._initializing => modal # "login")

\* the second load has restored the session the first load's PIN login stored
C13_Witness ==
  /\ loads = 2
  /\ auth._isPinAuth
  /\ auth.initialized
  /\ isAdmin(auth)
  /\ localStorage[TokenKey] = Item(TokenText)
  /\ modal = "none"

(***************************************************************************)
(* Auth.logout (auth.js:710-739) and _logoutPinSession (auth.js:416-454).  *)
(***************************************************************************)
\* _logoutPinSession up to its return: memory and store are cleared at once,
\* the DELETE request is sent
_logoutPinSession(w) ==
  [w EXCEPT !.A._sessionToken = NoItem, !.A._isPinAuth = FALSE,
            !.A._authorized = FALSE, !.A._registrationStatus = Null,
            !.A._role = Null, !.ls = removeItem(w.ls, TokenKey)]

\* the .then of the PIN branch (auth.js:716-733), run when the DELETE request
\* has been answered or has failed
LogoutThen(w) ==
  LET w1 == [w EXCEPT !.A._isPinAuth = FALSE, !.A._authorized = FALSE,
                      !.A._registrationStatus = Null, !.A._role = Null,
                      !.A._sessionToken = NoItem]
  IN IF w1.R.currentPage # Null /\ isDashboardRoute(w1.R.currentPage)
     THEN navigateTo(w1, "home", FALSE)
     ELSE w1

\* Auth.logout() is called: the PIN branch up to its await, or signOut() of
\* the Firebase SDK with a user signed in, whose event comes later.  Without
\* either the call changes nothing
Logout ==
  /\ auth.initialized
  /\ IF auth._isPinAuth
     THEN /\ ~logoutDue
          /\ CommitPage(_logoutPinSession(W))
          /\ logoutDue' = TRUE
     ELSE /\ auth._auth
          /\ fb.user \in Users
          /\ ~fb.signOut
          /\ CommitPage([W EXCEPT !.F.signOut = TRUE])
          /\ UNCHANGED logoutDue
  /\ UNCHANGED notPageVars

LogoutDone ==
  /\ logoutDue
  /\ logoutDue' = FALSE
  /\ LET w == [LogoutThen(W) EXCEPT !.A.pinEnded = TRUE]
     IN Fits(w) /\ CommitPage(w)
  /\ UNCHANGED notPageVars

\* the signed-out event that signOut() asked for
SignedOutEvent == AuthStateChanged(Null) /\ fb.signOut

NextLogout ==
  \/ Next
  \/ Logout
  \/ LogoutDone

\* isAuthenticated() is false, role and registration status are cleared
Cleared(A) ==
  /\ ~isAuthenticated(A)
  /\ A._role = Null
  /\ A._registrationStatus = Null

\* if the current page was a dashboard page, the step has issued a
\* navigation to 'home' and it has started
HomeIssued ==
  (router.currentPage # Null /\ isDashboardRoute(router.currentPage))
    => /\ Len(calls') = Len(calls) + 1
       /\ calls'[Len(calls')].page = "home"
       /\ calls'[Len(calls')].outcome = "started"

(***************************************************************************)
(* C14.  Sign-out on either path: when Auth.logout() has completed (PIN    *)
(* path: its .then has run; federated path: the signed-out auth-state      *)
(* event has been handled, which the listener does unless a PIN session    *)
(* is on), isAuthenticated() is false, role and registration status are    *)
(* cleared, no session token is left in memory or in the store, and if     *)
(* Router.currentPage was a dashboard route a navigation to 'home' has     *)
(* been issued.                                                            *)
(***************************************************************************)
C14_SignedOut ==
  /\ [][LogoutDone =>
          /\ Cleared(auth')
          /\ auth'._sessionToken = NoItem
          /\ ~localStorage'[TokenKey].has
          /\ HomeIssued]_vars
  /\ [][(SignedOutEvent /\ ~auth._isPinAuth) =>
          /\ Cleared(auth')
          /\ auth'._sessionToken = NoItem
          /\ ~localStorage'[TokenKey].has
          /\ HomeIssued]_vars

\* the calls that went ahead to load the page
StartedFor(page) ==
  {i \in DOMAIN calls : calls[i].page = page /\ calls[i].outcome = "started"}

\* the page is in a container, in the cache or the current page
Present(page) ==
  \/ router.currentPage = page
  \/ page \in loader.cache
  \/ \E c \in DOMAIN loader.content : loader.content[c] = page

(***************************************************************************)
(* C15.  Restricted routes: 'dashboard-team' is fetched, inserted, cached  *)
(* or made the current page only by a navigateTo call at which             *)
(* Auth.isAdmin() was true, and a route of localOnlyRoutes only by a call  *)
(* at which Auth.isLocalDashboard() was true; the current page is never a  *)
(* local-only route while isLocalDashboard() is false.                     *)
(***************************************************************************)
C15_RestrictedRoutes ==
  /\ \A i \in StartedFor("dashboard-team") : calls[i].admin
  /\ \A page \in localOnlyRoutes :
       /\ \A i \in StartedFor(page) : calls[i].local
       /\ Present(page) => StartedFor(page) # {}
       /\ router.currentPage = page => isLocalDashboard(auth)

\* an administrator on the local network has opened the team page
C15_Witness ==
  /\ router.currentPage = "dashboard-team"
  /\ loader.content["dashboard"] = "dashboard-team"
  /\ \E i \in StartedFor("dashboard-team") : calls[i].admin /\ calls[i].local

\* the step has issued a navigateTo call for the page
Replayed(page) ==
  /\ Len(calls') > Len(calls)
  /\ \E i \in (Len(calls) + 1)..Len(calls') : calls'[i].page = page

(***************************************************************************)
(* C16.  Queued navigation: a dashboard route asked for while Auth is      *)
(* initializing is queued in _pendingRoute; when the verification answers, *)
(* the step that handles the answer issues a navigateTo call for that      *)
(* route, which goes ahead if the token was accepted, and if the token was *)
(* refused the route is navigated to or the login dialog is opened.        *)
(***************************************************************************)
C16_QueuedRouteReplayed ==
  /\ [][(VerifyResolved(TRUE) /\ auth._pendingRoute # Null) =>
          /\ Replayed(auth._pendingRoute)
          /\ calls'[Len(calls')].outcome = "started"]_vars
  /\ [][(VerifyResolved(FALSE) /\ auth._pendingRoute # Null) =>
          (Replayed(auth._pendingRoute) \/ modal' = "login")]_vars

\* the page with the verification request failing as well
NextVerify ==
  \/ Next
  \/ VerifyFailed

(***************************************************************************)
(* C17.  Fail-closed verification: when the request that verifies the      *)
(* stored token fails at the network level, the step that handles the      *)
(* failure leaves Auth not authenticated and not admin, ends the           *)
(* initializing state and has run _initFirebase (Auth is initialized, with *)
(* the Firebase listener installed when the feature is enabled).           *)
(***************************************************************************)
C17_VerifyFailsClosed ==
  [][VerifyFailed =>
      /\ ~isAuthenticated(auth')
      /\ ~isAdmin(auth')
      /\ ~auth'._isPinAuth
      /\ ~auth'._initializing
      /\ auth'.initialized
      /\ auth'._auth = env.enableAuth]_vars

\* the failure has been handled: Firebase is set up, no PIN session, and the
\* stored token is gone
C17_Witness ==
  /\ auth.verified = "failed"
  /\ env.enableAuth
  /\ auth.initialized
  /\ auth._auth
  /\ ~auth._isPinAuth
  /\ ~isAuthenticated(auth)
  /\ ~localStorage[TokenKey].has

\* the calls the step has added to the log
NewCalls == (Len(calls) + 1)..Len(calls')

(***************************************************************************)
(* C18.  Rejection of a restricted route.  As claimed: every navigateTo    *)
(* call rejected by the admin check or by the local-only check shows a     *)
(* notice and is followed at once by a call for 'dashboard-home'.          *)
(***************************************************************************)
C18_RejectionRedirects ==
  [][\A i \in NewCalls :
       calls'[i].outcome \in {"denied", "redirected"}
         => /\ calls'[i].toast
            /\ i + 1 \in NewCalls
            /\ calls'[i + 1].name = "dashboard-home"]_vars

(***************************************************************************)
(* C18, as the code has it: a call rejected by the local-only check shows  *)
(* a notice and is followed at once by an unforced call for                *)
(* 'dashboard-home', which goes ahead or is skipped as already current; a  *)
(* call rejected by the admin check shows a notice and issues no call.     *)
(***************************************************************************)
C18_LocalOnlyRedirects ==
  [][\A i \in NewCalls :
       /\ calls'[i].outcome = "redirected"
            => /\ calls'[i].toast
               /\ i + 1 \in NewCalls
               /\ calls'[i + 1].name = "dashboard-home"
               /\ ~calls'[i + 1].force
               /\ calls'[i + 1].outcome \in {"started", "skipped"}
       /\ calls'[i].outcome = "denied"
            => /\ calls'[i].toast
               /\ i = Len(calls')]_vars

\* a remote administrator asked for the team page and was sent to the
\* dashboard home
C18_Witness ==
  /\ Len(calls) = 2
  /\ calls[1].outcome = "redirected"
  /\ calls[1].page = "dashboard-team"
  /\ calls[1].admin
  /\ ~calls[1].local
  /\ calls[2].name = "dashboard-home"
  /\ calls[2].outcome = "started"

\* the call is under way: it went ahead and has not returned
InFlight(c) == c.outcome = "started" /\ c.phase # "done"

\* the step is the one in which call i returns
Completes(i) == InFlight(calls[i]) /\ calls'[i].phase = "done"

(***************************************************************************)
(* C19.  Overlapping navigations: every call that returns makes its own   *)
(* page the current page and the hash, so after two overlapping calls the  *)
(* current page is that of the call that returned last, whichever was      *)
(* issued last; a call issued while another is in flight leaves that one   *)
(* as it is, and a call is skipped only for the page that is current, not  *)
(* for one that is merely being loaded.                                    *)
(***************************************************************************)
C19_LastCompletionWins ==
  /\ [][\A i \in DOMAIN calls :
          Completes(i) => /\ router'.currentPage = calls[i].page
                          /\ router'.hash = calls[i].page]_vars
  /\ [][\A i \in DOMAIN calls :
          /\ i \in DOMAIN calls'
          /\ (InFlight(calls[i]) /\ Len(calls') > Len(calls)) => calls'[i] = calls[i]]_vars
  /\ [][\A j \in NewCalls :
          calls'[j].outcome = "skipped" => calls'[j].page = router.currentPage]_vars

\* two calls for different pages have returned, the first one last
C19_Witness ==
  /\ Len(calls) = 2
  /\ calls[1].outcome = "started" /\ calls[1].phase = "done"
  /\ calls[2].outcome = "started" /\ calls[2].phase = "done"
  /\ calls[1].page # calls[2].page
  /\ router.currentPage = calls[1].page
  /\ router.hash = calls[1].page

\* call i + 1 asks for the page of call i again, unforced, after call i's
\* fetch has failed and the call has returned
RetryOf(i) ==
  /\ i + 1 \in DOMAIN calls
  /\ calls[i].failed
  /\ calls[i + 1].page = calls[i].page
  /\ ~calls[i + 1].force
  /\ calls[i + 1].cur = i

(***************************************************************************)
(* C20.  A failed fetch is retriable: the step in which the fetch of a     *)
(* navigateTo call fails shows the error view in the call's container and  *)
(* caches nothing, and a following unforced navigateTo call for the same   *)
(* route fetches its content anew.                                         *)
(***************************************************************************)
C20_FailedFetchRetriable ==
  /\ [][\A i \in DOMAIN calls :
          (~calls[i].failed /\ calls'[i].failed)
            => /\ loader'.content[calls[i].container] = "error"
               /\ loader'.cache = loader.cache]_vars
  /\ [](\A i \in DOMAIN calls : RetryOf(i) => calls[i + 1].fetched)

(***************************************************************************)
(* C21.  Theme follows the route: the step in which a navigateTo call for  *)
(* route r returns leaves Router.currentVertical equal to the              *)
(* classification of r by its prefix ('ent-' gives ent, 'biz-' biz,        *)
(* anything else, the 'dashboard-' routes included, neutral).              *)
(***************************************************************************)
C21_ThemeFollowsRoute ==
  [][\A i \in DOMAIN calls :
       Completes(i) => router'.currentVertical = getVerticalForPage(calls[i].page)]_vars

\* the step has issued exactly one navigateTo call for the page, forced
ReplayedOnce(page) ==
  /\ Cardinality({j \in NewCalls : calls'[j].page = page}) = 1
  /\ \A j \in NewCalls : calls'[j].page = page => calls'[j].force

\* the registration of the user signed in is found approved by check i
ApprovedSignIn(i) ==
  /\ CheckGet(i)
  /\ fb.reg[fb.checks[i].user].status = "approved"
  /\ auth._user # Null

C23_AuthorizedIsCurrentUser ==
  (isAuthenticated(auth) /\ ~auth._isPinAuth)
    => /\ fb.cur # 0
       /\ fb.checks[fb.cur].user = auth._user
       /\ fb.checks[fb.cur].result \in {"approved", "failed"}

(***************************************************************************)
(* C24.  Federated callbacks leave a PIN session alone: while a PIN        *)
(* session is on (Auth._isPinAuth, set by an accepted PIN login or a       *)
(* restored session, until logout) Auth._authorized is true and Auth._role *)
(* is 'admin', and no step taken during the session asks Firebase to sign  *)
(* out, also when a registration check started before the PIN login        *)
(* answers during the session.                                             *)
(***************************************************************************)
C24_PinStateKept ==
  /\ [](auth._isPinAuth => (auth._authorized /\ auth._role = "admin"))
  /\ [][(auth._isPinAuth /\ auth'._isPinAuth) => (fb'.signOut => fb.signOut)]_vars

\* no navigateTo call is under way and no timer of the router is due
NoNavigationPending ==
  /\ router.timer = Null
  /\ \A i \in DOMAIN calls : ~InFlight(calls[i])

\* no sign-out is under way
NoSignOutPending == ~fb.signOut /\ ~logoutDue

(***************************************************************************)
(* C25.  No restricted page outlives the session: with authentication      *)
(* enabled, once every navigation and every sign-out has completed, the    *)
(* current page is not a 'dashboard-*' route while isAuthenticated() is    *)
(* false, whatever the order in which a navigation to a dashboard route    *)
(* and a sign-out completed.                                               *)
(***************************************************************************)
C25_NoDashboardSignedOut ==
  (env.enableAuth /\ NoNavigationPending /\ NoSignOutPending)
    => ~(/\ router.currentPage # Null
         /\ isDashboardRoute(router.currentPage)
         /\ ~isAuthenticated(auth))

(***************************************************************************)
(* C26.  Layout follows the current route: whenever no navigation is in    *)
(* flight and Router.currentPage is set, Router.currentLayout is           *)
(* 'dashboard' if the current page is a 'dashboard-*' route and 'public'   *)
(* otherwise, also after overlapping navigations between a public and a    *)
(* dashboard route that completed in either order.                         *)
(***************************************************************************)
C26_LayoutFollowsRoute ==
  (NoNavigationPending /\ router.currentPage # Null)
    => router.currentLayout = getLayoutForPage(router.currentPage)

(***************************************************************************)
(* C27.  A member is never an administrator: a federated session whose     *)
(* registration record carries role 'member' never has Auth.isAdmin()      *)
(* true, also after its registration check has failed with a network       *)
(* error.                                                                  *)
(***************************************************************************)
C27_MemberNeverAdmin ==
  (/\ ~auth._isPinAuth
   /\ auth._user \in Users
   /\ fb.reg[auth._user].role = "member")
    => ~isAdmin(auth)

(***************************************************************************)
(* The repository over a store whose writes can fail.  Utils.storage.set   *)
(* (utils.js:341-347) catches what setItem throws (quota exceeded, storage *)
(* disabled) and returns as if it had written; f tells which of a call's   *)
(* two writes throw: f.items the collection's, f.log the activity log's.   *)
(***************************************************************************)
Failures == [items : BOOLEAN, log : BOOLEAN]

\* DataStore._save when setItem throws or not
_saveIf(d, key, data, throws) == IF throws THEN d ELSE _save(d, key, data)

\* DataStore._logActivity when its write throws or not
_logActivityIf(d, action, key, entity, t, q, throws) ==
  IF throws THEN d ELSE _logActivity(d, action, key, entity, t, q)

_addIf(d, key, item, t, r, q, f) ==
  LET stored == Stamped(item, t, r)
      items  == Append(_getAll(d, key), stored)
  IN  _logActivityIf(_saveIf(d, key, items, f.items), "create", key, stored, t, q, f.log)

_updateIf(d, key, id, updates, t, q, f) ==
  LET items == _getAll(d, key)
      index == FindIndex(items, id)
  IN  IF index = 0 THEN d
      ELSE LET merged == Merged(items[index], updates, t)
           IN  _logActivityIf(_saveIf(d, key, [items EXCEPT ![index] = merged], f.items),
                              "update", key, merged, t, q, f.log)

_deleteIf(d, key, id, t, q, f) ==
  LET items    == _getAll(d, key)
      found    == FindIndex(items, id)
      filtered == Without(items, id)
      saved    == _saveIf(d, key, filtered, f.items)
  IN  IF found # 0 THEN _logActivityIf(saved, "delete", key, items[found], t, q, f.log)
      ELSE saved

\* the call as the repository's steps record it, with the writes that failed
Called(op, key, id, arg, ret, hit, f) ==
  [op |-> op, key |-> key, id |-> id, arg |-> arg, ret |-> ret, hit |-> hit,
   at |-> now, pre |-> db, fails |-> f]

AddIf(key, item, r, q, f) ==
  /\ nMut < MaxMutations
  /\ db' = _addIf(db, key, item, now, r, q, f)
  /\ last' = Called("add", key, IdOf(item), item, Stamped(item, now, r), TRUE, f)
  /\ hist' = IF f.log THEN hist
             ELSE <<ActivityRecord("create", key, Stamped(item, now, r), now, q)>> \o hist
  /\ nMut' = nMut + 1
  /\ UNCHANGED now
  /\ UNCHANGED notStoreVars

UpdateIf(key, id, updates, q, f) ==
  /\ nMut < MaxMutations
  /\ db' = _updateIf(db, key, id, updates, now, q, f)
  /\ last' = Called("update", key, id, updates, UpdateResult(key, id, updates),
                    IsHit(key, id), f)
  /\ hist' = IF IsHit(key, id) /\ ~f.log
             THEN <<ActivityRecord("update", key, UpdateResult(key, id, updates), now, q)>> \o hist
             ELSE hist
  /\ nMut' = nMut + 1
  /\ UNCHANGED now
  /\ UNCHANGED notStoreVars

DeleteIf(key, id, q, f) ==
  /\ nMut < MaxMutations
  /\ db' = _deleteIf(db, key, id, now, q, f)
  /\ last' = Called("delete", key, id, <<>>, _getById(db, key, id), IsHit(key, id), f)
  /\ hist' = IF IsHit(key, id) /\ ~f.log
             THEN <<ActivityRecord("delete", key, _getById(db, key, id), now, q)>> \o hist
             ELSE hist
  /\ nMut' = nMut + 1
  /\ UNCHANGED now
  /\ UNCHANGED notStoreVars

NextQuota ==
  \/ Tick
  \/ \E key \in CollectionKeys, item \in AddItems, r \in Rand, q \in LogRand, f \in Failures :
       AddIf(key, item, r, q, f)
  \/ \E key \in CollectionKeys, id \in AskedIds, updates \in Patches, q \in LogRand,
        f \in Failures :
       UpdateIf(key, id, updates, q, f)
  \/ \E key \in CollectionKeys, id \in AskedIds, q \in LogRand, f \in Failures :
       DeleteIf(key, id, q, f)

(***************************************************************************)
(* C28.  An Activity Record only for a persisted mutation: when the write  *)
(* of the collection fails in add, update or delete, so that getAll and    *)
(* getById show the collection as it was, the call leaves no new Activity  *)
(* Record in the log.                                                      *)
(***************************************************************************)
C28_LogOnlyPersisted ==
  (last.op \in {"add", "update", "delete"} /\ last.fails.items)
    => /\ PostItems = PreItems
       /\ PostLog = PreLog

(***************************************************************************)
(* C29.  The local tier keeps its sensitive collections: on a page served  *)
(* from the local network no call of seedIfEmpty removes a sensitive       *)
(* collection (revenue, expenses, invoices, documents, settings,           *)
(* checklist) that existed before the call, whether DataStore.init runs    *)
(* before or after Auth.init and however often it runs.                    *)
(***************************************************************************)
C29_LocalKeepsSensitive ==
  (last.op = "seed" /\ env.local)
    => \A k \in Range(sensitiveKeys) : k \in DOMAIN last.pre => k \in DOMAIN db

(***************************************************************************)
(* Auth.loginWithProvider (auth.js:699-704), called by the provider        *)
(* buttons of the login dialog (auth.js:1125-1190).                        *)
(***************************************************************************)
\* the three providers are set up with Firebase, so the call rejects only
\* for want of Auth._auth; otherwise the popup opens, and the sign-in it
\* leads to arrives as an auth-state event
loginWithProvider(w) == IF ~w.A._auth THEN "rejected" ELSE "popup"

\* a provider button is pressed; the presses followed are those made after a
\* PIN session was signed out
LoginWithProvider ==
  /\ modal = "login"
  /\ auth.pinEnded
  /\ Commit([W EXCEPT !.A.provider = loginWithProvider(W)])

NextProvider ==
  \/ NextLogout
  \/ LoginWithProvider

(***************************************************************************)
(* C30.  The two credential paths stay usable one after the other: on the  *)
(* local network, after a PIN session (restored at start-up or opened by   *)
(* loginWithPin) has been signed out, a loginWithProvider call made from   *)
(* the login dialog of the same page load is not rejected with 'Auth not   *)
(* initialized'.                                                           *)
(***************************************************************************)
C30_ProviderAfterPin ==
  (env.local /\ auth.pinEnded) => auth.provider # "rejected"

(***************************************************************************)
(* The specifications.                                                     *)
(***************************************************************************)
InitStore == StartStore /\ IdleKV /\ IdleNav

SpecStore == InitStore /\ [][NextStore]_vars

InitKV == StartKV /\ IdleStore /\ IdleNav

SpecKV == InitKV /\ [][NextKV]_vars

Init == StartNav /\ IdleStore /\ lastKV = NoKVCall

Spec == Init /\ [][Next]_vars

SpecSeed == InitSeed /\ [][NextSeed]_vars

\* no session token is stored yet
InitSession ==
  /\ Init
  /\ ~localStorage[TokenKey].has

SpecVerify == Init /\ [][NextVerify]_vars

SpecLogout == Init /\ [][NextLogout]_vars

SpecSession == InitSession /\ [][NextSession]_vars

SpecQuota == InitStore /\ [][NextQuota]_vars

SpecProvider == Init /\ [][NextProvider]_vars

====
